---- MODULE Spec2Model ----
(***************************************************************************)
(* Warranty Register API: authentication gates (bearer token, service     *)
(* secret, browser session), the account store, the warranty store and    *)
(* the in-process session map, modelled from warranty-api/app.            *)
(***************************************************************************)
EXTENDS Integers, FiniteSets, Sequences, TLC

(* ------------------------------ bounds -------------------------------- *)
MaxWarranties == 2
MaxSessions == 1
MaxTicks == 1
MaxCalls == 2
MaxElapse == 32
MaxHandles == 3

(* --------------------------- program constants ------------------------ *)
secret_key == "your-super-secret-key-change-in-production-minimum-32-chars"
algorithm == "HS256"
access_token_expire_minutes == 30
cookie_max_age == 60
default_api_key == "warranty-api-key-change-this"

None == "<None>"

DefaultAdminEmail == "admin@warranty.local"
DefaultAdminPassword == "Admin@123"
SystemEmail == "system@warranty-api.local"
SystemPassword == "system-password-not-for-login"
UserEmail == "user@example.com"
UserPassword == "user-pass-1"

Emails == {DefaultAdminEmail, SystemEmail, UserEmail}
RegisterPasswords == {UserPassword}
LoginPasswords == {DefaultAdminPassword, SystemPassword, UserPassword}
Salts == {"salt-1"}
AllApiKeyHeaders == {None, "", default_api_key, "wrong-api-key"}
ApiKeyHeaders == {None, default_api_key, "wrong-api-key"}
ApiKeySettings == {default_api_key, ""}
AssetIds == {"asset-1", "asset-2"}
\* Variant: the enumeration has a fifth member.
WarrantyStatus_with_void == {"registered", "active", "expired", "claimed", "void"}

WarrantyStatus == {"registered", "active", "expired", "claimed"}
NewStatuses == {"active", "void"}
WarrantyIds == 1..MaxWarranties

VARIABLES settings, users, warranties, sessions, session_count, now, last, calls

vars == <<settings, users, warranties, sessions, session_count, now, last, calls>>

(* ------------------------ credential store ---------------------------- *)
\* bcrypt: a salted one-way hash; the digest binds the salt and the password.
get_password_hash(password, salt) ==
    [salt |-> salt, digest |-> <<"bcrypt", salt, password>>]

\* Variant: only the scheme of the stored hash is checked.
verify_password_scheme_only(plain_password, hashed_password) ==
    hashed_password.digest[1] = "bcrypt"

verify_password(plain_password, hashed_password) ==
    hashed_password.digest = <<"bcrypt", hashed_password.salt, plain_password>>

User(email, hashed_password, is_active, is_admin) ==
    [email |-> email, hashed_password |-> hashed_password,
     is_active |-> is_active, is_admin |-> is_admin]

NoUser == [email |-> None]

\* db.query(models.User).filter(models.User.email == email).first()
FindUser(us, email) ==
    IF \E u \in us : u.email = email
    THEN CHOOSE u \in us : u.email = email
    ELSE NoUser

(* --------------------------- token service ---------------------------- *)
\* The signature is a MAC over the header and the payload under the key.
Sign(key, alg, sub, exp) == <<key, alg, sub, exp>>

Token(alg, sub, exp, sig) ==
    [form |-> "jwt", alg |-> alg, sub |-> sub, exp |-> exp, sig |-> sig]

NoCredentials == [form |-> "none"]
MalformedToken == [form |-> "garbage"]

\* Optional[timedelta] is a sequence of length at most one.
\* to_encode is a copy of data whose "exp" entry is set (or replaced).
create_access_token(data, expires_delta, t) ==
    LET expire == IF expires_delta # <<>> /\ expires_delta[1] # 0
                  THEN t + expires_delta[1]
                  ELSE t + access_token_expire_minutes
        to_encode == [k \in DOMAIN data \cup {"exp"} |->
                        IF k = "exp" THEN expire ELSE data[k]]
    IN Token(algorithm, to_encode.sub, to_encode.exp,
             Sign(secret_key, algorithm, to_encode.sub, to_encode.exp))

HttpError(status, detail) == [status |-> status, detail |-> detail, user |-> NoUser]

\* jwt.decode(token, secret_key, algorithms=[algorithm]): structure,
\* declared algorithm, signature and expiry; every failure is a JWTError.
\* Variant: tokens declaring any algorithm are verified and accepted.
decode_token_any_algorithm(token, t) ==
    IF /\ token.form = "jwt"
       /\ token.sig = Sign(secret_key, token.alg, token.sub, token.exp)
       /\ ~(token.exp < t)
    THEN [status |-> 200, detail |-> "", payload |-> [sub |-> token.sub, exp |-> token.exp]]
    ELSE [status |-> 401, detail |-> "Could not validate credentials", payload |-> [sub |-> None]]

\* Variant: an expired signature is reported with its own detail.
decode_token_expiry_detail(token, t) ==
    IF /\ token.form = "jwt"
       /\ token.alg \in {algorithm}
       /\ token.sig = Sign(secret_key, token.alg, token.sub, token.exp)
    THEN IF token.exp < t
         THEN [status |-> 401, detail |-> "Signature has expired", payload |-> [sub |-> None]]
         ELSE [status |-> 200, detail |-> "", payload |-> [sub |-> token.sub, exp |-> token.exp]]
    ELSE [status |-> 401, detail |-> "Could not validate credentials", payload |-> [sub |-> None]]

decode_token(token, t) ==
    IF /\ token.form = "jwt"
       /\ token.alg \in {algorithm}
       /\ token.sig = Sign(secret_key, token.alg, token.sub, token.exp)
       /\ ~(token.exp < t)
    THEN [status |-> 200, detail |-> "", payload |-> [sub |-> token.sub, exp |-> token.exp]]
    ELSE [status |-> 401, detail |-> "Could not validate credentials", payload |-> [sub |-> None]]

(* ------------------------------- gates -------------------------------- *)
\* Variant: the is_active test is missing.
get_current_user_any_account(credentials, us, t) ==
    IF credentials.form = "none"
    THEN HttpError(401, "Not authenticated")
    ELSE LET decoded == decode_token(credentials, t) IN
         IF decoded.status # 200
         THEN HttpError(decoded.status, decoded.detail)
         ELSE LET email == decoded.payload.sub
                  user == FindUser(us, email) IN
              IF email = None
              THEN HttpError(401, "Invalid token payload")
              ELSE IF user = NoUser
              THEN HttpError(401, "User not found")
              ELSE [status |-> 200, detail |-> "", user |-> user]

\* Variant: a missing bearer header is refused as 403 (HTTPBearer auto_error).
get_current_user_auto_error(credentials, us, t) ==
    IF credentials.form = "none"
    THEN HttpError(403, "Not authenticated")
    ELSE LET decoded == decode_token(credentials, t) IN
         IF decoded.status # 200
         THEN HttpError(decoded.status, decoded.detail)
         ELSE LET email == decoded.payload.sub
                  user == FindUser(us, email) IN
              IF email = None
              THEN HttpError(401, "Invalid token payload")
              ELSE IF user = NoUser
              THEN HttpError(401, "User not found")
              ELSE IF user.is_active # "Y"
              THEN HttpError(403, "User account is inactive")
              ELSE [status |-> 200, detail |-> "", user |-> user]

\* Variant: a token is refused once the browser sessions are gone.
get_current_user_session_bound(credentials, us, t) ==
    IF credentials.form = "none"
    THEN HttpError(401, "Not authenticated")
    ELSE LET decoded == decode_token(credentials, t) IN
         IF decoded.status # 200
         THEN HttpError(decoded.status, decoded.detail)
         ELSE LET email == decoded.payload.sub
                  user == FindUser(us, email) IN
              IF email = None
              THEN HttpError(401, "Invalid token payload")
              ELSE IF session_count > 0 /\ DOMAIN sessions = {}
              THEN HttpError(401, "Token revoked")
              ELSE IF user = NoUser
              THEN HttpError(401, "User not found")
              ELSE IF user.is_active # "Y"
              THEN HttpError(403, "User account is inactive")
              ELSE [status |-> 200, detail |-> "", user |-> user]

get_current_user(credentials, us, t) ==
    IF credentials.form = "none"
    THEN HttpError(401, "Not authenticated")
    ELSE LET decoded == decode_token(credentials, t) IN
         IF decoded.status # 200
         THEN HttpError(decoded.status, decoded.detail)
         ELSE LET email == decoded.payload.sub
                  user == FindUser(us, email) IN
              IF email = None
              THEN HttpError(401, "Invalid token payload")
              ELSE IF user = NoUser
              THEN HttpError(401, "User not found")
              ELSE IF user.is_active # "Y"
              THEN HttpError(403, "User account is inactive")
              ELSE [status |-> 200, detail |-> "", user |-> user]

\* Variant: the is_admin test is missing.
get_current_admin_user_any_user(credentials, us, t) ==
    get_current_user(credentials, us, t)

\* Variant: the admin right is the one the account had when the token was
\* issued (the first administrator), not the flag stored now.
get_current_admin_user_as_issued(credentials, us, t) ==
    LET current == get_current_user(credentials, us, t) IN
    IF current.status # 200
    THEN current
    ELSE IF current.user.email # DefaultAdminEmail
    THEN HttpError(403, "Admin privileges required")
    ELSE current

get_current_admin_user(credentials, us, t) ==
    LET current == get_current_user(credentials, us, t) IN
    IF current.status # 200
    THEN current
    ELSE IF current.user.is_admin # "Y"
    THEN HttpError(403, "Admin privileges required")
    ELSE current

\* Python truth value of an Optional[str]
Truthy(s) == s # None /\ s # ""

\* Variant: an empty header reaches the gates as the empty string.
api_key_header_verbatim(header) == header

\* APIKeyHeader(name="X-API-Key", auto_error=False): the value of the header,
\* and None when the header is missing or empty.
api_key_header(header) == IF Truthy(header) THEN header ELSE None

\* Variant: any header that is present passes.
validate_api_key_presence_only(api_key, cfg) ==
    IF api_key = None
    THEN [status |-> 401, detail |-> "API key required"]
    ELSE [status |-> 200, detail |-> ""]

validate_api_key(api_key, cfg) ==
    IF api_key = None
    THEN [status |-> 401, detail |-> "API key required"]
    ELSE IF api_key # cfg.api_key
    THEN [status |-> 401, detail |-> "Invalid API key"]
    ELSE [status |-> 200, detail |-> ""]

validate_api_key_value(api_key, cfg) == api_key = cfg.api_key

\* Variant: the failure of the token path is not caught.
get_api_key_or_user_uncaught(api_key, credentials, us, t, cfg) ==
    IF Truthy(api_key) /\ api_key = cfg.api_key
    THEN [status |-> 200, detail |-> "", user |-> NoUser, is_api_key_auth |-> TRUE]
    ELSE LET current == get_current_user(credentials, us, t) IN
         IF credentials.form # "none" /\ current.status = 200
         THEN [status |-> 200, detail |-> "", user |-> current.user, is_api_key_auth |-> FALSE]
         ELSE IF credentials.form # "none"
         THEN [status |-> current.status, detail |-> current.detail,
               user |-> NoUser, is_api_key_auth |-> FALSE]
         ELSE [status |-> 401, detail |-> "Valid API key or JWT token required",
               user |-> NoUser, is_api_key_auth |-> FALSE]

\* Variant: a header that is present but wrong is refused at once.
get_api_key_or_user_wrong_key_blocks(api_key, credentials, us, t, cfg) ==
    IF Truthy(api_key) /\ api_key = cfg.api_key
    THEN [status |-> 200, detail |-> "", user |-> NoUser, is_api_key_auth |-> TRUE]
    ELSE IF Truthy(api_key)
    THEN [status |-> 401, detail |-> "Invalid API key", user |-> NoUser, is_api_key_auth |-> FALSE]
    ELSE LET current == get_current_user(credentials, us, t) IN
         IF credentials.form # "none" /\ current.status = 200
         THEN [status |-> 200, detail |-> "", user |-> current.user, is_api_key_auth |-> FALSE]
         ELSE [status |-> 401, detail |-> "Valid API key or JWT token required",
               user |-> NoUser, is_api_key_auth |-> FALSE]

\* Variant: the bearer token is tried before the service secret.
get_api_key_or_user_token_first(api_key, credentials, us, t, cfg) ==
    LET current == get_current_user(credentials, us, t) IN
    IF credentials.form # "none" /\ current.status = 200
    THEN [status |-> 200, detail |-> "", user |-> current.user, is_api_key_auth |-> FALSE]
    ELSE IF Truthy(api_key) /\ api_key = cfg.api_key
    THEN [status |-> 200, detail |-> "", user |-> NoUser, is_api_key_auth |-> TRUE]
    ELSE [status |-> 401, detail |-> "Valid API key or JWT token required",
          user |-> NoUser, is_api_key_auth |-> FALSE]

get_api_key_or_user(api_key, credentials, us, t, cfg) ==
    IF Truthy(api_key) /\ api_key = cfg.api_key
    THEN [status |-> 200, detail |-> "", user |-> NoUser, is_api_key_auth |-> TRUE]
    ELSE LET current == get_current_user(credentials, us, t) IN
         IF credentials.form # "none" /\ current.status = 200
         THEN [status |-> 200, detail |-> "", user |-> current.user, is_api_key_auth |-> FALSE]
         ELSE [status |-> 401, detail |-> "Valid API key or JWT token required",
               user |-> NoUser, is_api_key_auth |-> FALSE]

\* Variant: an entry is honoured only for the lifetime of its cookie.
get_session_user_max_age(cookie, ss, us) ==
    IF ~Truthy(cookie) \/ cookie \notin DOMAIN ss \/ now > cookie_max_age
    THEN NoUser
    ELSE FindUser(us, ss[cookie])

\* sessions[session_id] looked up in the account store
get_session_user(cookie, ss, us) ==
    IF ~Truthy(cookie) \/ cookie \notin DOMAIN ss
    THEN NoUser
    ELSE FindUser(us, ss[cookie])

(* ------------------------- requests and replies ----------------------- *)
\* The request being answered and its reply; Idle between two requests.
Reply(op, req, status, detail, principal, body) ==
    [op |-> op, req |-> req, status |-> status, detail |-> detail,
     principal |-> principal, body |-> body]

NoBody == [success |-> FALSE, warranty_id |-> 0, warranty_status |-> None]
NoRequest == [x |-> None]
Idle == Reply("idle", NoRequest, 0, "", None, NoBody)
ServicePrincipal == "<service>"

store == <<settings, users, warranties, sessions, session_count, now>>

Handle(n) == "sid-" \o ToString(n)
IssuedHandles == {Handle(n) : n \in 1..session_count}
Cookies == {None, "sid-forged"} \cup IssuedHandles

\* Tokens live with the clients, the program keeps none. A client may hold
\* the token the program signed for an email at time 0.
IssuedToken(email) ==
    create_access_token([sub |-> email], <<access_token_expire_minutes>>, 0)

TickMinutes == access_token_expire_minutes + 1

\* An expiry later than every time of the model
FarFuture == (MaxTicks + 2) * TickMinutes

\* Bearer values the program did not issue: a token signed with another
\* key, an altered payload, an unexpected algorithm, and a token without
\* subject signed with the configured (published default) key.
CraftedTokens ==
    {Token(algorithm, DefaultAdminEmail, FarFuture,
           Sign("attacker-key", algorithm, DefaultAdminEmail, FarFuture)),
     Token(algorithm, DefaultAdminEmail, FarFuture,
           Sign(secret_key, algorithm, UserEmail, FarFuture)),
     Token("none", DefaultAdminEmail, FarFuture,
           Sign(secret_key, "none", DefaultAdminEmail, FarFuture)),
     Token(algorithm, None, FarFuture,
           Sign(secret_key, algorithm, None, FarFuture))}

Credentials == {NoCredentials, MalformedToken} \cup {IssuedToken(e) : e \in Emails}
AllCredentials == Credentials \cup CraftedTokens

NoWarranty == [id |-> 0]

FindWarrantyById(ws, id) ==
    IF \E w \in ws : w.id = id THEN CHOOSE w \in ws : w.id = id ELSE NoWarranty

\* uuid4(): an id no stored record has
NewWarrantyId(ws) == Cardinality(ws) + 1

IdleCall == [pc |-> "idle"]

Init ==
    /\ settings = [api_key |-> default_api_key]
    /\ users = {User(DefaultAdminEmail, get_password_hash(DefaultAdminPassword, "salt-1"), "Y", "Y")}
    /\ warranties = {}
    /\ sessions = <<>>
    /\ session_count = 0
    /\ now = 0
    /\ last = Idle
    /\ calls = [i \in 1..MaxCalls |-> IdleCall]

\* The reply is sent and the worker takes the next request.
Respond ==
    /\ last # Idle
    /\ last' = Idle
    /\ UNCHANGED <<store, calls>>

(* ------------------------------ /auth --------------------------------- *)
\* Variant: an existing account is overwritten instead of refused.
register_user_overwrite(email, password, salt) ==
    LET req == [email |-> email, password |-> password]
        existing_user == FindUser(users, email)
        new_user == User(email, get_password_hash(password, salt), "Y", "N")
        access_token == create_access_token([sub |-> email], <<access_token_expire_minutes>>, now)
    IN /\ last = Idle
       /\ users' = (users \ {existing_user}) \cup {new_user}
       /\ last' = IF existing_user # NoUser
                  THEN Reply("register_user", req, 400, "Email already registered", None, NoBody)
                  ELSE Reply("register_user", req, 201, "", None,
                             [success |-> TRUE, user |-> new_user, access_token |-> access_token])
       /\ UNCHANGED <<settings, warranties, sessions, session_count, now, calls>>

register_user(email, password, salt) ==
    LET req == [email |-> email, password |-> password]
        existing_user == FindUser(users, email)
        new_user == User(email, get_password_hash(password, salt), "Y", "N")
        access_token == create_access_token([sub |-> email], <<access_token_expire_minutes>>, now)
    IN /\ last = Idle
       /\ IF existing_user # NoUser
          THEN /\ last' = Reply("register_user", req, 400, "Email already registered", None, NoBody)
               /\ UNCHANGED <<store, calls>>
          ELSE /\ users' = users \cup {new_user}
               /\ last' = Reply("register_user", req, 201, "", None,
                                [success |-> TRUE, user |-> new_user, access_token |-> access_token])
               /\ UNCHANGED <<settings, warranties, sessions, session_count, now, calls>>

login(email, password) ==
    LET req == [email |-> email, password |-> password]
        user == FindUser(users, email)
        access_token == create_access_token([sub |-> email], <<access_token_expire_minutes>>, now)
    IN /\ last = Idle
       /\ IF user = NoUser \/ ~verify_password(password, user.hashed_password)
          THEN last' = Reply("login", req, 401, "Incorrect email or password", None, NoBody)
          ELSE IF user.is_active # "Y"
          THEN last' = Reply("login", req, 403, "User account is inactive", None, NoBody)
          ELSE last' = Reply("login", req, 200, "", None,
                             [success |-> TRUE, user |-> user, access_token |-> access_token])
       /\ UNCHANGED <<store, calls>>

get_me(credentials) ==
    LET current == get_current_user(credentials, users, now)
    IN /\ last = Idle
       /\ last' = Reply("get_me", [credentials |-> credentials], current.status, current.detail,
                        current.user.email, NoBody)
       /\ UNCHANGED <<store, calls>>

create_admin(credentials, email, password, salt) ==
    LET req == [credentials |-> credentials, email |-> email, password |-> password]
        current_admin == get_current_admin_user(credentials, users, now)
        existing_user == FindUser(users, email)
        new_admin == User(email, get_password_hash(password, salt), "Y", "Y")
    IN /\ last = Idle
       /\ IF current_admin.status # 200
          THEN /\ last' = Reply("create_admin", req, current_admin.status, current_admin.detail,
                                None, NoBody)
               /\ UNCHANGED <<store, calls>>
          ELSE IF existing_user # NoUser
          THEN /\ last' = Reply("create_admin", req, 400, "Email already registered",
                                current_admin.user.email, NoBody)
               /\ UNCHANGED <<store, calls>>
          ELSE /\ users' = users \cup {new_admin}
               /\ last' = Reply("create_admin", req, 201, "", current_admin.user.email,
                                [success |-> TRUE, user |-> new_admin])
               /\ UNCHANGED <<settings, warranties, sessions, session_count, now, calls>>

(* --------------------------- /warranties ------------------------------ *)
Warranty(id, asset_id, warranty_status) ==
    [id |-> id, asset_id |-> asset_id, warranty_status |-> warranty_status]

\* Variant: the lookup skips records still in their initial status.
ExistingWarranties_processed(ws, asset_id) ==
    {w \in ws : w.asset_id = asset_id /\ w.warranty_status # "registered"}

\* db.query(models.Warranty).filter(models.Warranty.asset_id == asset_id)
ExistingWarranties(ws, asset_id) == {w \in ws : w.asset_id = asset_id}

\* Variant: the record is created in status "active".
NewWarranty_active(ws, asset_id) == Warranty(NewWarrantyId(ws), asset_id, "active")

\* models.Warranty(..., warranty_status=REGISTERED, ...) under a fresh id
NewWarranty(ws, asset_id) == Warranty(NewWarrantyId(ws), asset_id, "registered")

PrincipalOf(auth_result) ==
    IF auth_result.is_api_key_auth THEN ServicePrincipal ELSE auth_result.user.email

\* Variant: the existence check is skipped for the service principal.
register_warranty_service_unchecked(api_key, credentials, asset_id, salt) ==
    LET req == [api_key |-> api_key, credentials |-> credentials, asset_id |-> asset_id]
        auth_result == get_api_key_or_user(api_key_header(api_key), credentials, users, now,
                                           settings)
        matching == IF auth_result.is_api_key_auth THEN {}
                    ELSE ExistingWarranties(warranties, asset_id)
        system_user == FindUser(users, SystemEmail)
        new_system_user == User(SystemEmail, get_password_hash(SystemPassword, salt), "Y", "N")
        warranty == NewWarranty(warranties, asset_id)
    IN /\ last = Idle
       /\ IF auth_result.status # 200
          THEN /\ last' = Reply("register_warranty", req, auth_result.status, auth_result.detail,
                                None, NoBody)
               /\ UNCHANGED <<store, calls>>
          ELSE IF matching # {}
          THEN /\ \E existing \in matching :
                    last' = Reply("register_warranty", req, 200,
                                  "Warranty already registered for this asset",
                                  PrincipalOf(auth_result),
                                  [success |-> FALSE, warranty_id |-> existing.id,
                                   warranty_status |-> existing.warranty_status])
               /\ UNCHANGED <<store, calls>>
          ELSE /\ Cardinality(warranties) < MaxWarranties
               /\ users' = IF auth_result.is_api_key_auth /\ system_user = NoUser
                           THEN users \cup {new_system_user}
                           ELSE users
               /\ warranties' = warranties \cup {warranty}
               /\ last' = Reply("register_warranty", req, 200, "Warranty registered successfully",
                                PrincipalOf(auth_result),
                                [success |-> TRUE, warranty_id |-> warranty.id,
                                 warranty_status |-> warranty.warranty_status])
               /\ UNCHANGED <<settings, sessions, session_count, now, calls>>

\* The whole handler, run without interleaving (one event loop, no await).
register_warranty(api_key, credentials, asset_id, salt) ==
    LET req == [api_key |-> api_key, credentials |-> credentials, asset_id |-> asset_id]
        auth_result == get_api_key_or_user(api_key_header(api_key), credentials, users, now,
                                           settings)
        matching == ExistingWarranties(warranties, asset_id)
        system_user == FindUser(users, SystemEmail)
        new_system_user == User(SystemEmail, get_password_hash(SystemPassword, salt), "Y", "N")
        warranty == NewWarranty(warranties, asset_id)
    IN /\ last = Idle
       /\ IF auth_result.status # 200
          THEN /\ last' = Reply("register_warranty", req, auth_result.status, auth_result.detail,
                                None, NoBody)
               /\ UNCHANGED <<store, calls>>
          ELSE IF matching # {}
          THEN /\ \E existing \in matching :
                    last' = Reply("register_warranty", req, 200,
                                  "Warranty already registered for this asset",
                                  PrincipalOf(auth_result),
                                  [success |-> FALSE, warranty_id |-> existing.id,
                                   warranty_status |-> existing.warranty_status])
               /\ UNCHANGED <<store, calls>>
          ELSE /\ Cardinality(warranties) < MaxWarranties
               /\ users' = IF auth_result.is_api_key_auth /\ system_user = NoUser
                           THEN users \cup {new_system_user}
                           ELSE users
               /\ warranties' = warranties \cup {warranty}
               /\ last' = Reply("register_warranty", req, 200, "Warranty registered successfully",
                                PrincipalOf(auth_result),
                                [success |-> TRUE, warranty_id |-> warranty.id,
                                 warranty_status |-> warranty.warranty_status])
               /\ UNCHANGED <<settings, sessions, session_count, now, calls>>

check_warranty(api_key, asset_id) ==
    LET req == [api_key |-> api_key, asset_id |-> asset_id]
        api_key_valid == validate_api_key(api_key_header(api_key), settings)
        matching == ExistingWarranties(warranties, asset_id)
    IN /\ last = Idle
       /\ IF api_key_valid.status # 200
          THEN last' = Reply("check_warranty", req, api_key_valid.status, api_key_valid.detail,
                             None, NoBody)
          ELSE IF matching = {}
          THEN last' = Reply("check_warranty", req, 200, "", ServicePrincipal, NoBody)
          ELSE \E warranty \in matching :
                 last' = Reply("check_warranty", req, 200, "", ServicePrincipal,
                               [success |-> TRUE, warranty_id |-> warranty.id,
                                warranty_status |-> warranty.warranty_status])
       /\ UNCHANGED <<store, calls>>

\* api_key: the X-API-Key header of the request; no dependency of this route reads it.
update_warranty_status(api_key, credentials, warranty_id, new_status) ==
    LET req == [api_key |-> api_key, credentials |-> credentials,
                warranty_id |-> warranty_id, new_status |-> new_status]
        current_user == get_current_admin_user(credentials, users, now)
        warranty == FindWarrantyById(warranties, warranty_id)
        updated == [warranty EXCEPT !.warranty_status = new_status]
    IN /\ last = Idle
       /\ IF current_user.status # 200
          THEN /\ last' = Reply("update_warranty_status", req, current_user.status,
                                current_user.detail, None, NoBody)
               /\ UNCHANGED <<store, calls>>
          ELSE IF warranty = NoWarranty
          THEN /\ last' = Reply("update_warranty_status", req, 404, "Warranty not found",
                                current_user.user.email, NoBody)
               /\ UNCHANGED <<store, calls>>
          ELSE IF new_status \notin WarrantyStatus
          THEN /\ last' = Reply("update_warranty_status", req, 400, "Invalid status",
                                current_user.user.email, NoBody)
               /\ UNCHANGED <<store, calls>>
          ELSE /\ warranties' = (warranties \ {warranty}) \cup {updated}
               /\ last' = Reply("update_warranty_status", req, 200, "", current_user.user.email,
                                [success |-> TRUE, warranty_id |-> updated.id,
                                 warranty_status |-> updated.warranty_status])
               /\ UNCHANGED <<settings, users, sessions, session_count, now, calls>>

(* ------------------------------- /web --------------------------------- *)
\* Variant: the is_active test is missing.
login_submit_inactive_allowed(email, password) ==
    LET req == [email |-> email, password |-> password]
        user == FindUser(users, email)
        session_id == Handle(session_count + 1)
    IN /\ last = Idle
       /\ IF user = NoUser \/ ~verify_password(password, user.hashed_password)
          THEN /\ last' = Reply("login_submit", req, 401, "Invalid email or password", None, NoBody)
               /\ UNCHANGED <<store, calls>>
          ELSE /\ session_count < MaxHandles
               /\ sessions' = sessions @@ (session_id :> user.email)
               /\ session_count' = session_count + 1
               /\ last' = Reply("login_submit", req, 303, "/web/dashboard", user.email,
                                [success |-> TRUE, session_id |-> session_id])
               /\ UNCHANGED <<settings, users, warranties, now, calls>>

login_submit(email, password) ==
    LET req == [email |-> email, password |-> password]
        user == FindUser(users, email)
        session_id == Handle(session_count + 1)
    IN /\ last = Idle
       /\ IF user = NoUser \/ ~verify_password(password, user.hashed_password)
          THEN /\ last' = Reply("login_submit", req, 401, "Invalid email or password", None, NoBody)
               /\ UNCHANGED <<store, calls>>
          ELSE IF user.is_active # "Y"
          THEN /\ last' = Reply("login_submit", req, 403, "Account is inactive", None, NoBody)
               /\ UNCHANGED <<store, calls>>
          ELSE /\ session_count < MaxHandles
               /\ sessions' = sessions @@ (session_id :> user.email)
               /\ session_count' = session_count + 1
               /\ last' = Reply("login_submit", req, 303, "/web/dashboard", user.email,
                                [success |-> TRUE, session_id |-> session_id])
               /\ UNCHANGED <<settings, users, warranties, now, calls>>

\* Variant: only the cookie is deleted, the entry stays in the map.
logout_cookie_only(cookie) ==
    /\ last = Idle
    /\ last' = Reply("logout", [cookie |-> cookie], 303, "/web/login", None, NoBody)
    /\ UNCHANGED <<store, calls>>

\* Variant: the entry is deleted without the membership test (KeyError).
logout_unchecked(cookie) ==
    /\ last = Idle
    /\ IF Truthy(cookie) /\ cookie \in DOMAIN sessions
       THEN /\ sessions' = [h \in DOMAIN sessions \ {cookie} |-> sessions[h]]
            /\ last' = Reply("logout", [cookie |-> cookie], 303, "/web/login", None, NoBody)
       ELSE /\ sessions' = sessions
            /\ last' = Reply("logout", [cookie |-> cookie], 500, "Internal server error",
                             None, NoBody)
    /\ UNCHANGED <<settings, users, warranties, session_count, now, calls>>

\* Variant: every session of the owner of the presented handle is deleted.
logout_owner_sessions(cookie) ==
    /\ last = Idle
    /\ sessions' = IF Truthy(cookie) /\ cookie \in DOMAIN sessions
                   THEN [h \in {g \in DOMAIN sessions : sessions[g] # sessions[cookie]}
                           |-> sessions[h]]
                   ELSE sessions
    /\ last' = Reply("logout", [cookie |-> cookie], 303, "/web/login", None, NoBody)
    /\ UNCHANGED <<settings, users, warranties, session_count, now, calls>>

logout(cookie) ==
    /\ last = Idle
    /\ sessions' = IF Truthy(cookie) /\ cookie \in DOMAIN sessions
                   THEN [h \in DOMAIN sessions \ {cookie} |-> sessions[h]]
                   ELSE sessions
    /\ last' = Reply("logout", [cookie |-> cookie], 303, "/web/login", None, NoBody)
    /\ UNCHANGED <<settings, users, warranties, session_count, now, calls>>

dashboard(cookie) ==
    LET user == get_session_user(cookie, sessions, users)
    IN /\ last = Idle
       /\ IF user = NoUser
          THEN last' = Reply("dashboard", [cookie |-> cookie], 303, "/web/login", None, NoBody)
          ELSE last' = Reply("dashboard", [cookie |-> cookie], 200, "", user.email, NoBody)
       /\ UNCHANGED <<store, calls>>

warranty_status_update(cookie, warranty_id, new_status) ==
    LET req == [cookie |-> cookie, warranty_id |-> warranty_id, new_status |-> new_status]
        user == get_session_user(cookie, sessions, users)
        warranty == FindWarrantyById(warranties, warranty_id)
        updated == [warranty EXCEPT !.warranty_status = new_status]
    IN /\ last = Idle
       /\ IF user = NoUser
          THEN /\ last' = Reply("warranty_status_update", req, 303, "/web/login", None, NoBody)
               /\ UNCHANGED <<store, calls>>
          ELSE IF warranty = NoWarranty
          THEN /\ last' = Reply("warranty_status_update", req, 303, "/web/dashboard",
                                user.email, NoBody)
               /\ UNCHANGED <<store, calls>>
          ELSE IF new_status \notin {"registered", "active", "expired", "claimed"}
          THEN /\ last' = Reply("warranty_status_update", req, 200, "Invalid status",
                                user.email, NoBody)
               /\ UNCHANGED <<store, calls>>
          ELSE /\ warranties' = (warranties \ {warranty}) \cup {updated}
               /\ last' = Reply("warranty_status_update", req, 200, "Status updated", user.email,
                                [success |-> TRUE, warranty_id |-> updated.id,
                                 warranty_status |-> updated.warranty_status])
               /\ UNCHANGED <<settings, users, sessions, session_count, now, calls>>

(* ------------------------ process and environment --------------------- *)
\* Variant: the session map is kept across the restart.
lifespan_sessions_kept(salt) ==
    LET admin_exists == \E u \in users : u.is_admin = "Y"
        admin_user == User(DefaultAdminEmail, get_password_hash(DefaultAdminPassword, salt), "Y", "Y")
    IN /\ last = Idle
       /\ users' = IF ~admin_exists /\ FindUser(users, DefaultAdminEmail) = NoUser
                   THEN users \cup {admin_user}
                   ELSE users
       /\ last' = Reply("lifespan", NoRequest, 0, "", None, NoBody)
       /\ UNCHANGED <<settings, warranties, sessions, session_count, now, calls>>

\* Startup: the module-level session map starts empty and the default admin
\* is created unless an admin exists; a failing insert is logged and dropped.
lifespan(salt) ==
    LET admin_exists == \E u \in users : u.is_admin = "Y"
        admin_user == User(DefaultAdminEmail, get_password_hash(DefaultAdminPassword, salt), "Y", "Y")
    IN /\ last = Idle
       /\ users' = IF ~admin_exists /\ FindUser(users, DefaultAdminEmail) = NoUser
                   THEN users \cup {admin_user}
                   ELSE users
       /\ sessions' = <<>>
       /\ last' = Reply("lifespan", NoRequest, 0, "", None, NoBody)
       /\ UNCHANGED <<settings, warranties, session_count, now, calls>>

\* The times requests are served at: the last minute a token issued at
\* time 0 is valid, and the minutes after it.
ClockTimes == {access_token_expire_minutes} \cup {k * TickMinutes : k \in 1..MaxTicks}

\* datetime.utcnow() advances.
Tick ==
    /\ last = Idle
    /\ \E t \in ClockTimes : t > now /\ now' = t
    /\ UNCHANGED <<settings, users, warranties, sessions, session_count, last, calls>>

\* The account table is an external record store: its operator clears the
\* is_active column of a row.
DeactivateAccount(email) ==
    LET user == FindUser(users, email)
    IN /\ last = Idle
       /\ user # NoUser
       /\ user.is_active = "Y"
       /\ users' = (users \ {user}) \cup {[user EXCEPT !.is_active = "N"]}
       /\ UNCHANGED <<settings, warranties, sessions, session_count, now, last, calls>>

Next ==
    \/ \E e \in Emails, p \in RegisterPasswords, s \in Salts : register_user(e, p, s)
    \/ \E e \in Emails, p \in LoginPasswords : login(e, p)
    \/ \E c \in Credentials : get_me(c)
    \/ \E c \in Credentials, e \in Emails, p \in RegisterPasswords, s \in Salts : create_admin(c, e, p, s)
    \/ \E k \in ApiKeyHeaders, c \in Credentials, a \in AssetIds, s \in Salts : register_warranty(k, c, a, s)
    \/ \E k \in ApiKeyHeaders, a \in AssetIds : check_warranty(k, a)
    \/ \E k \in {None, default_api_key}, c \in Credentials, w \in WarrantyIds, n \in NewStatuses :
          update_warranty_status(k, c, w, n)
    \/ \E e \in Emails, p \in LoginPasswords : login_submit(e, p) /\ session_count' <= MaxSessions
    \/ \E c \in Cookies : logout(c)
    \/ \E c \in Cookies : dashboard(c)
    \/ \E c \in Cookies, w \in WarrantyIds, n \in NewStatuses : warranty_status_update(c, w, n)
    \/ \E s \in Salts : lifespan(s)
    \/ Tick
    \/ \E e \in Emails : DeactivateAccount(e)
    \/ Respond

Spec == Init /\ [][Next]_vars

(* ------------------- the gates over drawn inputs ----------------------- *)
\* Account stores the program reaches: the default admin, active or not,
\* and possibly one more account with either flag set or cleared.
GateStores ==
    LET admins == {User(DefaultAdminEmail, get_password_hash(DefaultAdminPassword, "salt-1"), a, "Y") :
                     a \in {"Y", "N"}}
        others == {User(UserEmail, get_password_hash(UserPassword, "salt-1"), a, m) :
                     a \in {"Y", "N"}, m \in {"Y", "N"}}
    IN {{a} : a \in admins} \cup {{a, o} : a \in admins, o \in others}

GateTimes == {0, access_token_expire_minutes, access_token_expire_minutes + 1}

InitGates ==
    /\ settings \in {[api_key |-> k] : k \in ApiKeySettings}
    /\ users \in GateStores
    /\ now \in GateTimes
    /\ warranties = {}
    /\ sessions = <<>>
    /\ session_count = 0
    /\ last = Idle
    /\ calls = [i \in 1..MaxCalls |-> IdleCall]

NextGates ==
    \/ \E c \in AllCredentials : get_me(c)
    \/ \E k \in AllApiKeyHeaders, c \in AllCredentials, a \in AssetIds, s \in Salts :
          register_warranty(k, c, a, s)
    \/ \E k \in AllApiKeyHeaders, a \in AssetIds : check_warranty(k, a)
    \/ \E k \in AllApiKeyHeaders, c \in AllCredentials, w \in WarrantyIds, n \in NewStatuses :
          update_warranty_status(k, c, w, n)
    \/ Respond

SpecGates == InitGates /\ [][NextGates]_vars

\* Variant: the email column carries no unique index.
EmailTaken_unenforced(us, email) == FALSE

\* Column(String(255), unique=True): a row with this email is stored.
EmailTaken(us, email) == \E u \in us : u.email = email

(* ------------- warranty registration, one store access per step ------- *)
\* Several workers share the database: between two store accesses of one
\* request the other requests may run.
Call(pc, req, auth, reply) == [pc |-> pc, req |-> req, auth |-> auth, reply |-> reply]

begin_register(i, api_key, credentials, asset_id) ==
    LET req == [api_key |-> api_key, credentials |-> credentials, asset_id |-> asset_id]
        auth_result == get_api_key_or_user(api_key_header(api_key), credentials, users, now,
                                           settings)
    IN /\ calls[i].pc = "idle"
       /\ calls' = [calls EXCEPT ![i] =
                      IF auth_result.status # 200
                      THEN Call("done", req, auth_result,
                                Reply("register_warranty", req, auth_result.status,
                                      auth_result.detail, None, NoBody))
                      ELSE Call("check_existing", req, auth_result, Idle)]
       /\ UNCHANGED <<store, last>>

check_existing(i) ==
    LET call == calls[i]
        matching == ExistingWarranties(warranties, call.req.asset_id)
    IN /\ call.pc = "check_existing"
       /\ IF matching # {}
          THEN \E existing \in matching :
                 calls' = [calls EXCEPT ![i] =
                             Call("done", call.req, call.auth,
                                  Reply("register_warranty", call.req, 200,
                                        "Warranty already registered for this asset",
                                        PrincipalOf(call.auth),
                                        [success |-> FALSE, warranty_id |-> existing.id,
                                         warranty_status |-> existing.warranty_status]))]
          ELSE calls' = [calls EXCEPT ![i].pc =
                           IF call.auth.is_api_key_auth THEN "find_system_user"
                           ELSE "insert_warranty"]
       /\ UNCHANGED <<store, last>>

find_system_user(i) ==
    /\ calls[i].pc = "find_system_user"
    /\ calls' = [calls EXCEPT ![i].pc =
                   IF FindUser(users, SystemEmail) = NoUser THEN "create_system_user"
                   ELSE "insert_warranty"]
    /\ UNCHANGED <<store, last>>

\* The insert violates the unique index on users.email when another request
\* created the row first; the outermost handler answers 500.
create_system_user(i, salt) ==
    LET call == calls[i]
        new_system_user == User(SystemEmail, get_password_hash(SystemPassword, salt), "Y", "N")
    IN /\ call.pc = "create_system_user"
       /\ IF EmailTaken(users, SystemEmail)
          THEN /\ calls' = [calls EXCEPT ![i] =
                              Call("done", call.req, call.auth,
                                   Reply("register_warranty", call.req, 500,
                                         "Internal server error", ServicePrincipal, NoBody))]
               /\ UNCHANGED <<store, last>>
          ELSE /\ users' = users \cup {new_system_user}
               /\ calls' = [calls EXCEPT ![i].pc = "insert_warranty"]
               /\ UNCHANGED <<settings, warranties, sessions, session_count, now, last>>

insert_warranty(i) ==
    LET call == calls[i]
        warranty == NewWarranty(warranties, call.req.asset_id)
    IN /\ call.pc = "insert_warranty"
       /\ warranties' = warranties \cup {warranty}
       /\ calls' = [calls EXCEPT ![i] =
                      Call("done", call.req, call.auth,
                           Reply("register_warranty", call.req, 200,
                                 "Warranty registered successfully", PrincipalOf(call.auth),
                                 [success |-> TRUE, warranty_id |-> warranty.id,
                                  warranty_status |-> warranty.warranty_status]))]
       /\ UNCHANGED <<settings, users, sessions, session_count, now, last>>

NextConc ==
    \/ \E i \in 1..MaxCalls, k \in {None, default_api_key},
          c \in {NoCredentials, IssuedToken(DefaultAdminEmail)}, a \in AssetIds :
          begin_register(i, k, c, a)
    \/ \E i \in 1..MaxCalls : check_existing(i)
    \/ \E i \in 1..MaxCalls : find_system_user(i)
    \/ \E i \in 1..MaxCalls, s \in Salts : create_system_user(i, s)
    \/ \E i \in 1..MaxCalls : insert_warranty(i)

SpecConc == Init /\ [][NextConc]_vars

(* --------------- account creation, one store access per step ---------- *)
\* bcrypt draws a fresh salt for every hash.
CallSalt(i) == "salt-" \o ToString(i)

InternalError(op, req) == Reply(op, req, 500, "Internal server error", None, NoBody)

begin_register_user(i, email, password) ==
    LET req == [email |-> email, password |-> password]
        existing_user == FindUser(users, email)
    IN /\ calls[i].pc = "idle"
       /\ calls' = [calls EXCEPT ![i] =
                      IF existing_user # NoUser
                      THEN Call("done", req, None,
                                Reply("register_user", req, 400, "Email already registered",
                                      None, NoBody))
                      ELSE Call("insert_user", req, None, Idle)]
       /\ UNCHANGED <<store, last>>

insert_user(i, salt) ==
    LET call == calls[i]
        new_user == User(call.req.email, get_password_hash(call.req.password, salt), "Y", "N")
        access_token == create_access_token([sub |-> new_user.email],
                                            <<access_token_expire_minutes>>, now)
    IN /\ call.pc = "insert_user"
       /\ IF EmailTaken(users, new_user.email)
          THEN /\ calls' = [calls EXCEPT ![i] =
                              Call("done", call.req, None, InternalError("register_user", call.req))]
               /\ UNCHANGED <<store, last>>
          ELSE /\ users' = users \cup {new_user}
               /\ calls' = [calls EXCEPT ![i] =
                              Call("done", call.req, None,
                                   Reply("register_user", call.req, 201, "", None,
                                         [success |-> TRUE, user |-> new_user,
                                          access_token |-> access_token]))]
               /\ UNCHANGED <<settings, warranties, sessions, session_count, now, last>>

begin_create_admin(i, credentials, email, password) ==
    LET req == [credentials |-> credentials, email |-> email, password |-> password]
        current_admin == get_current_admin_user(credentials, users, now)
    IN /\ calls[i].pc = "idle"
       /\ calls' = [calls EXCEPT ![i] =
                      IF current_admin.status # 200
                      THEN Call("done", req, current_admin,
                                Reply("create_admin", req, current_admin.status,
                                      current_admin.detail, None, NoBody))
                      ELSE Call("find_admin_email", req, current_admin, Idle)]
       /\ UNCHANGED <<store, last>>

find_admin_email(i) ==
    LET call == calls[i]
    IN /\ call.pc = "find_admin_email"
       /\ calls' = [calls EXCEPT ![i] =
                      IF FindUser(users, call.req.email) # NoUser
                      THEN Call("done", call.req, call.auth,
                                Reply("create_admin", call.req, 400, "Email already registered",
                                      call.auth.user.email, NoBody))
                      ELSE Call("insert_admin", call.req, call.auth, Idle)]
       /\ UNCHANGED <<store, last>>

insert_admin(i, salt) ==
    LET call == calls[i]
        new_admin == User(call.req.email, get_password_hash(call.req.password, salt), "Y", "Y")
    IN /\ call.pc = "insert_admin"
       /\ IF EmailTaken(users, new_admin.email)
          THEN /\ calls' = [calls EXCEPT ![i] =
                              Call("done", call.req, call.auth, InternalError("create_admin", call.req))]
               /\ UNCHANGED <<store, last>>
          ELSE /\ users' = users \cup {new_admin}
               /\ calls' = [calls EXCEPT ![i] =
                              Call("done", call.req, call.auth,
                                   Reply("create_admin", call.req, 201, "", call.auth.user.email,
                                         [success |-> TRUE, user |-> new_admin]))]
               /\ UNCHANGED <<settings, warranties, sessions, session_count, now, last>>

\* Startup of one worker process: the query for an administrator.
begin_lifespan(i) ==
    LET req == [email |-> DefaultAdminEmail, password |-> DefaultAdminPassword]
        admin_exists == \E u \in users : u.is_admin = "Y"
    IN /\ calls[i].pc = "idle"
       /\ calls' = [calls EXCEPT ![i] =
                      IF admin_exists
                      THEN Call("done", req, None,
                                Reply("lifespan", req, 0, "", None,
                                      [success |-> TRUE, created |-> FALSE]))
                      ELSE Call("insert_default_admin", req, None, Idle)]
       /\ UNCHANGED <<store, last>>

\* The insert of the default administrator; its failure is logged and dropped.
insert_default_admin(i, salt) ==
    LET call == calls[i]
        admin_user == User(DefaultAdminEmail, get_password_hash(DefaultAdminPassword, salt), "Y", "Y")
    IN /\ call.pc = "insert_default_admin"
       /\ IF EmailTaken(users, admin_user.email)
          THEN /\ calls' = [calls EXCEPT ![i] =
                              Call("done", call.req, None,
                                   Reply("lifespan", call.req, 0, "Error creating default admin",
                                         None, NoBody))]
               /\ UNCHANGED <<store, last>>
          ELSE /\ users' = users \cup {admin_user}
               /\ calls' = [calls EXCEPT ![i] =
                              Call("done", call.req, None,
                                   Reply("lifespan", call.req, 0, "", None,
                                         [success |-> TRUE, created |-> TRUE]))]
               /\ UNCHANGED <<settings, warranties, sessions, session_count, now, last>>

\* The database before the first startup has completed (no account yet),
\* or after it (the default administrator).
InitAccounts ==
    /\ settings = [api_key |-> default_api_key]
    /\ users \in {{}, {User(DefaultAdminEmail,
                            get_password_hash(DefaultAdminPassword, "salt-0"), "Y", "Y")}}
    /\ warranties = {}
    /\ sessions = <<>>
    /\ session_count = 0
    /\ now = 0
    /\ last = Idle
    /\ calls = [i \in 1..MaxCalls |-> IdleCall]

NextAccounts ==
    \/ \E i \in 1..MaxCalls, e \in Emails, p \in RegisterPasswords : begin_register_user(i, e, p)
    \/ \E i \in 1..MaxCalls : insert_user(i, CallSalt(i))
    \/ \E i \in 1..MaxCalls, c \in {NoCredentials, IssuedToken(DefaultAdminEmail)},
          e \in Emails, p \in RegisterPasswords : begin_create_admin(i, c, e, p)
    \/ \E i \in 1..MaxCalls : find_admin_email(i)
    \/ \E i \in 1..MaxCalls : insert_admin(i, CallSalt(i))
    \/ \E i \in 1..MaxCalls : begin_lifespan(i)
    \/ \E i \in 1..MaxCalls : insert_default_admin(i, CallSalt(i))
    \/ \E i \in 1..MaxCalls, a \in {"asset-1"} : begin_register(i, default_api_key, NoCredentials, a)
    \/ \E i \in 1..MaxCalls : check_existing(i)
    \/ \E i \in 1..MaxCalls : find_system_user(i)
    \/ \E i \in 1..MaxCalls : create_system_user(i, CallSalt(i))
    \/ \E i \in 1..MaxCalls : insert_warranty(i)

SpecAccounts == InitAccounts /\ [][NextAccounts]_vars

(* ------------------- account flags changed in the store ---------------- *)
\* The operator of the record store sets or clears the is_admin column.
SetAdmin(email, is_admin) ==
    LET user == FindUser(users, email)
    IN /\ last = Idle
       /\ user # NoUser
       /\ user.is_admin # is_admin
       /\ users' = (users \ {user}) \cup {[user EXCEPT !.is_admin = is_admin]}
       /\ UNCHANGED <<settings, warranties, sessions, session_count, now, last, calls>>

FlagEmails == {DefaultAdminEmail, UserEmail}

NextFlags ==
    \/ \E p \in RegisterPasswords, s \in Salts : register_user(UserEmail, p, s)
    \/ \E e \in FlagEmails : get_me(IssuedToken(e))
    \/ \E e \in FlagEmails, w \in WarrantyIds, n \in NewStatuses :
          update_warranty_status(None, IssuedToken(e), w, n)
    \/ \E a \in AssetIds, s \in Salts : register_warranty(default_api_key, NoCredentials, a, s)
    \/ \E e \in FlagEmails : DeactivateAccount(e)
    \/ \E e \in FlagEmails, f \in {"Y", "N"} : SetAdmin(e, f)
    \/ Tick
    \/ Respond

SpecFlags == Init /\ [][NextFlags]_vars

(* --------------- session lookup and logout, step by step --------------- *)
\* Variant: the entry is read without the membership test (KeyError).
get_session_entry_unchecked(i) ==
    LET call == calls[i]
        session_id == call.req.cookie
    IN /\ call.pc = "get_session_entry"
       /\ calls' = [calls EXCEPT ![i] =
                      IF session_id \in DOMAIN sessions
                      THEN Call("query_session_user", call.req, sessions[session_id], Idle)
                      ELSE Call("done", call.req, None, InternalError("dashboard", call.req))]
       /\ UNCHANGED <<store, last>>

begin_dashboard(i, cookie) ==
    LET req == [cookie |-> cookie, absent_at_start |-> cookie \notin DOMAIN sessions]
    IN /\ calls[i].pc = "idle"
       /\ calls' = [calls EXCEPT ![i] = Call("get_session_entry", req, None, Idle)]
       /\ UNCHANGED <<store, last>>

\* The membership test and the read of the map: two statements of one
\* coroutine with no await between them.
get_session_entry(i) ==
    LET call == calls[i]
        session_id == call.req.cookie
    IN /\ call.pc = "get_session_entry"
       /\ calls' = [calls EXCEPT ![i] =
                      IF ~Truthy(session_id) \/ session_id \notin DOMAIN sessions
                      THEN Call("done", call.req, None,
                                Reply("dashboard", call.req, 303, "/web/login", None, NoBody))
                      ELSE Call("query_session_user", call.req, sessions[session_id], Idle)]
       /\ UNCHANGED <<store, last>>

query_session_user(i) ==
    LET call == calls[i]
        user == FindUser(users, call.auth)
    IN /\ call.pc = "query_session_user"
       /\ calls' = [calls EXCEPT ![i] =
                      IF user = NoUser
                      THEN Call("done", call.req, call.auth,
                                Reply("dashboard", call.req, 303, "/web/login", None, NoBody))
                      ELSE Call("done", call.req, call.auth,
                                Reply("dashboard", call.req, 200, "", user.email, NoBody))]
       /\ UNCHANGED <<store, last>>

begin_logout(i, cookie) ==
    /\ calls[i].pc = "idle"
    /\ calls' = [calls EXCEPT ![i] = Call("remove_session", [cookie |-> cookie], None, Idle)]
    /\ UNCHANGED <<store, last>>

remove_session(i) ==
    LET call == calls[i]
        session_id == call.req.cookie
    IN /\ call.pc = "remove_session"
       /\ sessions' = IF Truthy(session_id) /\ session_id \in DOMAIN sessions
                      THEN [h \in DOMAIN sessions \ {session_id} |-> sessions[h]]
                      ELSE sessions
       /\ calls' = [calls EXCEPT ![i] =
                      Call("done", call.req, None,
                           Reply("logout", call.req, 303, "/web/login", None, NoBody))]
       /\ UNCHANGED <<settings, users, warranties, session_count, now, last>>

\* The default administrator is logged in under the first handle.
InitLookup ==
    /\ settings = [api_key |-> default_api_key]
    /\ users = {User(DefaultAdminEmail, get_password_hash(DefaultAdminPassword, "salt-1"), "Y", "Y")}
    /\ warranties = {}
    /\ sessions = (Handle(1) :> DefaultAdminEmail)
    /\ session_count = 1
    /\ now = 0
    /\ last = Idle
    /\ calls = [i \in 1..MaxCalls |-> IdleCall]

NextLookup ==
    \/ \E i \in 1..MaxCalls, c \in Cookies : begin_dashboard(i, c)
    \/ \E i \in 1..MaxCalls : get_session_entry(i)
    \/ \E i \in 1..MaxCalls : query_session_user(i)
    \/ \E i \in 1..MaxCalls, c \in Cookies : begin_logout(i, c)
    \/ \E i \in 1..MaxCalls : remove_session(i)

SpecLookup == InitLookup /\ [][NextLookup]_vars

(* --------------------------- browser sessions -------------------------- *)
\* The browser drops the cookie max_age (one hour) after it was set; the
\* clock passes that age.
CookieExpires ==
    /\ last = Idle
    /\ now <= cookie_max_age
    /\ now' = now + cookie_max_age + 1
    /\ UNCHANGED <<settings, users, warranties, sessions, session_count, last, calls>>

SessionEmails == {DefaultAdminEmail, UserEmail}
SessionPasswords == {DefaultAdminPassword, UserPassword}

NextSessions ==
    \/ \E p \in RegisterPasswords, s \in Salts : register_user(UserEmail, p, s)
    \/ \E e \in SessionEmails, p \in SessionPasswords : login_submit(e, p)
    \/ \E c \in Cookies : logout(c)
    \/ \E c \in Cookies : dashboard(c)
    \/ \E e \in SessionEmails : get_me(IssuedToken(e))
    \/ \E a \in {"asset-1"}, s \in Salts :
          register_warranty(None, IssuedToken(DefaultAdminEmail), a, s)
    \/ \E s \in Salts : lifespan(s)
    \/ Tick
    \/ CookieExpires
    \/ Respond

SpecSessions == Init /\ [][NextSessions]_vars

(* ----------------------- the token service alone ---------------------- *)
\* ttl values handed to the issuer: none, zero, short, and already past.
ExpiresDeltas == {<<>>, <<0>>, <<1>>, <<2>>, <<-1>>}

\* Claims handed to the issuer, with and without an "exp" entry of their own.
TokenData ==
    {[sub |-> e] : e \in {DefaultAdminEmail, UserEmail}}
        \cup {[sub |-> UserEmail, exp |-> FarFuture]}

TokenOtherSecret ==
    Token(algorithm, UserEmail, FarFuture, Sign("attacker-key", algorithm, UserEmail, FarFuture))
TokenAlteredPayload ==
    Token(algorithm, DefaultAdminEmail, FarFuture, Sign(secret_key, algorithm, UserEmail, FarFuture))
TokenOtherAlgorithm ==
    Token("HS384", UserEmail, FarFuture, Sign(secret_key, "HS384", UserEmail, FarFuture))

ForgedTokens == {TokenOtherSecret, TokenAlteredPayload, TokenOtherAlgorithm}

PresentedTokens ==
    ForgedTokens \cup CraftedTokens \cup {MalformedToken} \cup {IssuedToken(e) : e \in Emails}

DecodeBody(decoded) == [success |-> decoded.status = 200, payload |-> decoded.payload]

\* create_access_token(data, expires_delta) at the current time
issue_token(data, expires_delta) ==
    LET req == [data |-> data, expires_delta |-> expires_delta, issued_at |-> now]
        encoded_jwt == create_access_token(data, expires_delta, now)
    IN /\ last = Idle
       /\ last' = Reply("create_access_token", req, 200, "", None,
                        [success |-> TRUE, access_token |-> encoded_jwt])
       /\ UNCHANGED <<store, calls>>

\* One minute passes; the client keeps the token it was handed.
Elapse ==
    /\ last = Idle \/ last.op = "create_access_token"
    /\ now < MaxElapse
    /\ now' = now + 1
    /\ UNCHANGED <<settings, users, warranties, sessions, session_count, last, calls>>

\* decode_token on the token the issuer handed out
decode_issued ==
    LET token == last.body.access_token
        decoded == decode_token(token, now)
    IN /\ last.op = "create_access_token"
       /\ last' = Reply("decode_token",
                        [token |-> token, issued |-> TRUE, data |-> last.req.data,
                         expires_delta |-> last.req.expires_delta,
                         issued_at |-> last.req.issued_at],
                        decoded.status, decoded.detail, None, DecodeBody(decoded))
       /\ UNCHANGED <<store, calls>>

\* decode_token on a bearer value a client presents
decode_presented(token) ==
    LET decoded == decode_token(token, now)
    IN /\ last = Idle
       /\ last' = Reply("decode_token",
                        [token |-> token, issued |-> FALSE, data |-> [sub |-> None],
                         expires_delta |-> <<>>, issued_at |-> 0],
                        decoded.status, decoded.detail, None, DecodeBody(decoded))
       /\ UNCHANGED <<store, calls>>

NextTokens ==
    \/ \E d \in TokenData, x \in ExpiresDeltas : issue_token(d, x)
    \/ Elapse
    \/ decode_issued
    \/ \E token \in PresentedTokens : decode_presented(token)
    \/ Respond

SpecTokens == Init /\ [][NextTokens]_vars

(* ------------------------------ properties ---------------------------- *)
GenericDetail == "Valid API key or JWT token required"

StatusChanged ==
    \E w \in warranties : \E v \in warranties' :
        v.id = w.id /\ v.warranty_status # w.warranty_status

ActiveAdmin(us, email) ==
    \E u \in us : u.email = email /\ u.is_active = "Y" /\ u.is_admin = "Y"

\* C1: over all endpoints, a step changes the status of a warranty only when
\* the principal of the request is an active account with the admin flag.
C1_StatusChangedOnlyByActiveAdmin ==
    [][StatusChanged => ActiveAdmin(users, last'.principal)]_vars

\* C2: whenever the either gate refuses a request, the reply is the one
\* generic 401, whatever made the service secret and the token fail.
C2_EitherGateFailsGeneric ==
    (last.op = "register_warranty" /\ last.status # 200)
        => (last.status = 401 /\ last.detail = GenericDetail /\ last.principal = None)

\* The either gate refused the valid token of an inactive account.
C2_Witness ==
    /\ last.op = "register_warranty"
    /\ last.status = 401
    /\ get_current_user(last.req.credentials, users, now).status = 403

\* C3 as stated: a header equal to the configured secret resolves to the
\* service principal, whatever the bearer token.
C3_SecretResolvesService ==
    (last.op = "register_warranty" /\ last.req.api_key = settings.api_key)
        => (last.status = 200 /\ last.principal = ServicePrincipal)

\* C3 amended: a non-empty header equal to the configured secret resolves to
\* the service principal, whatever the bearer token.
C3_NonEmptySecretResolvesService ==
    (/\ last.op = "register_warranty"
     /\ Truthy(last.req.api_key)
     /\ last.req.api_key = settings.api_key)
        => (last.status = 200 /\ last.principal = ServicePrincipal)

\* The secret matched while the request also carried a token the token gate accepts.
C3_Witness ==
    /\ last.op = "register_warranty"
    /\ Truthy(last.req.api_key)
    /\ last.req.api_key = settings.api_key
    /\ get_current_user(last.req.credentials, users, now).status = 200
    /\ last.principal = ServicePrincipal

\* C4: the token gate yields a user exactly when the token decodes, its
\* subject has an account and the account is active; no token, an undecodable
\* token, no subject and an unknown subject are 401, an inactive account is 403.
C4_TokenGateOutcome ==
    last.op = "get_me" =>
        LET c == last.req.credentials
            decoded == c.form # "none" /\ decode_token(c, now).status = 200
            subject == decoded /\ c.sub # None
            account == IF subject THEN FindUser(users, c.sub) ELSE NoUser
            known == subject /\ account # NoUser
        IN /\ last.status = 200 <=> (known /\ account.is_active = "Y")
           /\ last.status = 200 => last.principal = c.sub
           /\ ~known => last.status = 401
           /\ (known /\ account.is_active # "Y") => last.status = 403

\* The token gate refused the valid token of an inactive account with 403.
C4_Witness ==
    /\ last.op = "get_me"
    /\ last.status = 403
    /\ decode_token(last.req.credentials, now).status = 200

ActiveNonAdminToken(c) ==
    /\ c.form # "none"
    /\ decode_token(c, now).status = 200
    /\ \E u \in users : u.email = c.sub /\ u.is_active = "Y" /\ u.is_admin # "Y"

\* C5: the API status update with the valid token of an active non-admin
\* account is 403 and changes no store, whatever warranty id and status it names.
C5_NonAdminStatusUpdateForbidden ==
    [][(last'.op = "update_warranty_status" /\ ActiveNonAdminToken(last'.req.credentials))
        => (last'.status = 403 /\ UNCHANGED <<users, warranties, sessions>>)]_vars

\* A non-admin was refused on an existing warranty and a valid status value.
C5_Witness ==
    /\ last.op = "update_warranty_status"
    /\ ActiveNonAdminToken(last.req.credentials)
    /\ last.status = 403
    /\ FindWarrantyById(warranties, last.req.warranty_id) # NoWarranty
    /\ last.req.new_status \in WarrantyStatus

ServiceSecretOnly(req) ==
    req.api_key = settings.api_key /\ req.credentials = NoCredentials

\* C6 as stated: the API status update with only the valid service secret is 403.
C6_ServiceStatusUpdateForbidden ==
    (last.op = "update_warranty_status" /\ ServiceSecretOnly(last.req))
        => last.status = 403

\* C6 amended: the API status update with only the valid service secret is
\* 401 (not authenticated) and leaves the warranty store unchanged.
C6_ServiceStatusUpdateUnauthenticated ==
    [][(last'.op = "update_warranty_status" /\ ServiceSecretOnly(last'.req))
        => (last'.status = 401 /\ UNCHANGED warranties)]_vars

\* The service secret alone was refused on an existing warranty.
C6_Witness ==
    /\ last.op = "update_warranty_status"
    /\ ServiceSecretOnly(last.req)
    /\ last.status = 401
    /\ FindWarrantyById(warranties, last.req.warranty_id) # NoWarranty
    /\ last.req.new_status \in WarrantyStatus

SessionGated == {"dashboard", "warranty_status_update"}

\* C7: the session gate sends the request to the login page when the cookie
\* is absent, the handle is unknown, or the owner's account is gone or inactive.
C7_SessionGateRefuses ==
    last.op \in SessionGated =>
        LET c == last.req.cookie
            owner == IF c \in DOMAIN sessions THEN FindUser(users, sessions[c]) ELSE NoUser
        IN (\/ ~Truthy(c)
            \/ c \notin DOMAIN sessions
            \/ owner = NoUser
            \/ owner.is_active # "Y")
             => (last.status = 303 /\ last.detail = "/web/login")

\* C8: registering an asset id that has a record answers success = false with
\* the id and status of an existing record and changes no store.
C8_DuplicateRegistrationRejected ==
    [][(/\ last'.op = "register_warranty"
        /\ last'.status = 200
        /\ \E w \in warranties : w.asset_id = last'.req.asset_id)
        => (/\ last'.body.success = FALSE
            /\ \E w \in warranties :
                 /\ w.asset_id = last'.req.asset_id
                 /\ w.id = last'.body.warranty_id
                 /\ w.warranty_status = last'.body.warranty_status
            /\ UNCHANGED <<users, warranties, sessions>>)]_vars

\* The service principal was refused a duplicate while no system account exists.
C8_Witness ==
    /\ last.op = "register_warranty"
    /\ last.status = 200
    /\ last.body.success = FALSE
    /\ last.principal = ServicePrincipal
    /\ FindUser(users, SystemEmail) = NoUser

\* C9: registering an asset id that has no record adds exactly one record for
\* it, in status "registered", keeps the others and answers success with its id.
C9_NewRegistrationAddsOneRecord ==
    [][(/\ last'.op = "register_warranty"
        /\ last'.status = 200
        /\ \A w \in warranties : w.asset_id # last'.req.asset_id)
        => (/\ last'.body.success = TRUE
            /\ last'.body.warranty_status = "registered"
            /\ \E w \in warranties' :
                 /\ w \notin warranties
                 /\ warranties' = warranties \cup {w}
                 /\ w.asset_id = last'.req.asset_id
                 /\ w.warranty_status = "registered"
                 /\ w.id = last'.body.warranty_id
                 /\ \A v \in warranties : v.id # w.id)]_vars

\* A user principal registered a new asset next to an existing record.
C9_Witness ==
    /\ last.op = "register_warranty"
    /\ last.body.success = TRUE
    /\ last.principal \in Emails
    /\ Cardinality(warranties) = 2

\* C10: whatever the interleaving of registrations, an asset id has at most
\* one record and at most one request for it reports success.
C10_OneRecordPerAsset ==
    \A a \in AssetIds :
        /\ Cardinality({w \in warranties : w.asset_id = a}) <= 1
        /\ Cardinality({i \in 1..MaxCalls :
                          /\ calls[i].pc = "done"
                          /\ calls[i].req.asset_id = a
                          /\ calls[i].reply.body.success}) <= 1

(* ------------------------------ token service ------------------------ *)
\* The ttl a token was issued with: the one supplied, else the default.
Ttl(expires_delta) ==
    IF expires_delta = <<>> THEN access_token_expire_minutes ELSE expires_delta[1]

InvalidToken(reply) ==
    /\ reply.status = 401
    /\ reply.detail = "Could not validate credentials"
    /\ reply.body = [success |-> FALSE, payload |-> [sub |-> None]]

\* C11: a token issued with ttl T decodes at every time before issuance + T
\* and fails to decode at every time after issuance + T, for every ttl.
C11_ValidUntilTtl ==
    (last.op = "decode_token" /\ last.req.issued) =>
        LET expiry == last.req.issued_at + Ttl(last.req.expires_delta)
        IN /\ now < expiry => last.status = 200
           /\ now > expiry => InvalidToken(last)

\* C12: the expiry embedded by the issuer is issuance time + the supplied
\* ttl (zero included), the default only when none is supplied, and it
\* replaces an expiry present in the supplied claims.
C12_ExpiryIsIssuancePlusTtl ==
    last.op = "create_access_token" =>
        /\ last.body.access_token.exp = last.req.issued_at + Ttl(last.req.expires_delta)
        /\ last.body.access_token.sub = last.req.data.sub

\* C13: a token signed with another secret, with a payload altered after
\* signing, or declaring another algorithm fails to decode as the one
\* invalid-token failure and yields no claims, its expiry being in the future.
C13_ForgedTokenRejected ==
    (last.op = "decode_token" /\ last.req.token \in ForgedTokens) => InvalidToken(last)

\* A token declaring another algorithm, correctly signed under it, was refused before its expiry.
C13_Witness ==
    /\ last.op = "decode_token"
    /\ last.req.token = TokenOtherAlgorithm
    /\ now < last.req.token.exp
    /\ InvalidToken(last)

\* C14: every failure of decode_token is the same reply, whether the token
\* is expired but correctly signed, tampered with, or malformed.
C14_DecodeFailureUniform ==
    (last.op = "decode_token" /\ last.status # 200) => InvalidToken(last)

\* An expired, correctly signed token of the issuer was refused.
C14_Witness ==
    /\ last.op = "decode_token"
    /\ last.req.token \in {IssuedToken(e) : e \in Emails}
    /\ last.req.token.exp < now
    /\ InvalidToken(last)

(* ------------------------------ accounts ----------------------------- *)
\* C15: at every time up to its expiry a token the program issued to an
\* account is accepted by the token gate while the account exists and is
\* active, whatever requests, logouts and restarts came before.
C15_IssuedTokenStaysAccepted ==
    \A e \in Emails :
        (/\ last.op = "get_me"
         /\ last.req.credentials = IssuedToken(e)
         /\ now <= IssuedToken(e).exp
         /\ \E u \in users : u.email = e /\ u.is_active = "Y")
            => (last.status = 200 /\ last.principal = e)

\* The token was accepted after a browser session was created and destroyed
\* and a second account was created.
C15_Witness ==
    /\ last.op = "get_me"
    /\ last.req.credentials = IssuedToken(DefaultAdminEmail)
    /\ last.status = 200
    /\ now = IssuedToken(DefaultAdminEmail).exp
    /\ session_count > 0
    /\ DOMAIN sessions = {}
    /\ Cardinality(users) > 1

\* The password an account was created with
CreationPassword(user) == user.hashed_password.digest[3]

\* C17: API login answers 200 with a token for the email exactly when the
\* account exists, the password is the one given at its creation and the
\* account is active; 403 with that password and an inactive account; 401
\* for an unknown email or another password; and it changes no store.
C17_LoginOutcome ==
    [][last'.op = "login" =>
        LET user == FindUser(users, last'.req.email)
            correct == user # NoUser /\ CreationPassword(user) = last'.req.password
        IN /\ last'.status = 200 <=> (correct /\ user.is_active = "Y")
           /\ last'.status = 200 => last'.body.access_token.sub = last'.req.email
           /\ (correct /\ user.is_active # "Y") => last'.status = 403
           /\ ~correct => last'.status = 401
           /\ UNCHANGED <<users, warranties, sessions>>]_vars

\* The creation password of an inactive account was refused with 403.
C17_Witness ==
    /\ last.op = "login"
    /\ last.status = 403
    /\ \E u \in users : /\ u.email = last.req.email
                         /\ CreationPassword(u) = last.req.password
                         /\ u.is_active # "Y"

\* C18: registering an email that has an account is refused with "Email
\* already registered" and changes no account; registering a new email adds
\* exactly one active, non-admin account and returns a token for that email
\* which the token gate accepts at once.
C18_RegisterUserOutcome ==
    [][last'.op = "register_user" =>
        IF \E u \in users : u.email = last'.req.email
        THEN /\ last'.status = 400
             /\ last'.detail = "Email already registered"
             /\ UNCHANGED users
        ELSE /\ last'.status = 201
             /\ \E u \in users' :
                  /\ u \notin users
                  /\ users' = users \cup {u}
                  /\ u.email = last'.req.email
                  /\ u.is_active = "Y"
                  /\ u.is_admin = "N"
                  /\ verify_password(last'.req.password, u.hashed_password)
             /\ last'.body.access_token.sub = last'.req.email
             /\ get_current_user(last'.body.access_token, users', now').status = 200]_vars

\* The email of an existing account with another password was refused.
C18_Witness ==
    /\ last.op = "register_user"
    /\ last.status = 400
    /\ \E u \in users : /\ u.email = last.req.email
                         /\ ~verify_password(last.req.password, u.hashed_password)

\* C20: create-admin adds an account only for the valid token of an active
\* admin; the valid token of an active non-admin is 403, a missing or invalid
\* token is 401, and both leave the account store unchanged.
C20_CreateAdminGuarded ==
    [][last'.op = "create_admin" =>
        LET c == last'.req.credentials
            valid == c.form # "none" /\ decode_token(c, now).status = 200
        IN /\ users' # users =>
                /\ valid
                /\ ActiveAdmin(users, c.sub)
                /\ \E u \in users' : users' = users \cup {u} /\ u.is_admin = "Y"
           /\ ~valid => (last'.status = 401 /\ UNCHANGED users)
           /\ ActiveNonAdminToken(c) => (last'.status = 403 /\ UNCHANGED users)]_vars

\* An active non-admin was refused the creation of an admin for a free email.
C20_Witness ==
    /\ last.op = "create_admin"
    /\ last.status = 403
    /\ ActiveNonAdminToken(last.req.credentials)
    /\ FindUser(users, last.req.email) = NoUser

(* --------------------------- flags and races -------------------------- *)
GateReplies == {"get_me", "update_warranty_status"}

AccountOf(c) == FindUser(users, c.sub)

\* C16 as stated: once the account is inactive, every request with a token
\* issued to it is 403, and the admin gate follows the current admin flag.
C16_InactiveAlwaysForbidden ==
    \A e \in FlagEmails :
        (/\ last.op \in GateReplies
         /\ last.req.credentials = IssuedToken(e)
         /\ AccountOf(IssuedToken(e)) # NoUser
         /\ AccountOf(IssuedToken(e)).is_active # "Y")
            => last.status = 403

\* C16 amended: a request with an unexpired token is decided by the flags the
\* account has at the time of the request: 403 when it is inactive, the admin
\* gate 403 when it is not an admin now, and passed when it is active (and,
\* for the admin gate, an admin now).
C16_FlagsReadPerRequest ==
    \A e \in FlagEmails :
        (/\ last.op \in GateReplies
         /\ last.req.credentials = IssuedToken(e)
         /\ now <= IssuedToken(e).exp
         /\ AccountOf(IssuedToken(e)) # NoUser)
            => LET account == AccountOf(IssuedToken(e))
                   admin_gate == last.op = "update_warranty_status"
               IN IF account.is_active # "Y"
                  THEN last.status = 403 /\ last.detail = "User account is inactive"
                  ELSE IF admin_gate /\ account.is_admin # "Y"
                  THEN last.status = 403 /\ last.detail = "Admin privileges required"
                  ELSE last.status \notin {401, 403} /\ last.principal = e

\* The token of the first administrator was refused by the admin gate after
\* the account lost its admin flag.
C16_Witness ==
    /\ last.op = "update_warranty_status"
    /\ last.req.credentials = IssuedToken(DefaultAdminEmail)
    /\ last.status = 403
    /\ last.detail = "Admin privileges required"

UniqueEmails(us) == \A u \in us : \A v \in us : u.email = v.email => u = v

InsertSteps == {"insert_user", "insert_admin", "insert_default_admin", "create_system_user"}

InsertedEmail(call) ==
    IF call.pc = "create_system_user" THEN SystemEmail ELSE call.req.email

\* C19: whatever the interleaving of user registration, admin creation,
\* startup bootstrap and service warranty registration, no two accounts share
\* an email, and the insert of a request that lost the race for its email
\* fails and creates nothing.
C19_EmailsStayUnique ==
    [][/\ UniqueEmails(users')
       /\ \A i \in 1..MaxCalls :
            (/\ calls[i].pc \in InsertSteps
             /\ calls'[i].pc # calls[i].pc
             /\ \E u \in users : u.email = InsertedEmail(calls[i]))
                => (/\ calls'[i].pc = "done"
                    /\ calls'[i].reply.body.success = FALSE
                    /\ calls'[i].reply.status \notin {200, 201}
                    /\ UNCHANGED <<users, warranties>>)]_vars

\* Two registrations of one email both passed the lookup; one was created,
\* the other failed.
C19_Witness ==
    \E i \in 1..MaxCalls : \E j \in 1..MaxCalls :
        /\ calls[i].pc = "done" /\ calls[j].pc = "done"
        /\ calls[i].reply.op = "register_user" /\ calls[j].reply.op = "register_user"
        /\ calls[i].req.email = calls[j].req.email
        /\ calls[i].reply.status = 201
        /\ calls[j].reply.status = 500

(* -------------------------- service secret --------------------------- *)
\* C21 as stated: the service-secret-only gate passes exactly when the header
\* is present and equal to the configured secret, fails 401 otherwise, and
\* the lookup behind it changes no store.
C21_PresentEqualSecretPasses ==
    [][last'.op = "check_warranty" =>
        /\ last'.status = 200 <=>
              (last'.req.api_key # None /\ last'.req.api_key = settings.api_key)
        /\ last'.status # 200 => last'.status = 401
        /\ UNCHANGED store]_vars

\* C21 amended: the service-secret-only gate passes exactly when the header
\* is present, not empty and equal to the configured secret; a missing, an
\* empty and a mismatched header fail 401; the lookup changes no store.
C21_NonEmptyEqualSecretPasses ==
    [][last'.op = "check_warranty" =>
        /\ last'.status = 200 <=>
              (Truthy(last'.req.api_key) /\ last'.req.api_key = settings.api_key)
        /\ last'.status # 200 => last'.status = 401
        /\ UNCHANGED store]_vars

\* The lookup passed the gate and returned the record of the asset.
C21_Witness ==
    /\ last.op = "check_warranty"
    /\ last.status = 200
    /\ last.req.api_key = settings.api_key
    /\ last.body.success = TRUE

\* C22: a warranty registration made by the service principal leaves the
\* account store unchanged.
C22_ServiceRegistrationKeepsAccounts ==
    [][(last'.op = "register_warranty" /\ last'.principal = ServicePrincipal)
        => UNCHANGED users]_vars

\* C30: in the either gate a wrong, empty or absent service secret together
\* with the valid token of an active account resolves to that account.
C30_WrongSecretFallsToToken ==
    (/\ last.op = "register_warranty"
     /\ last.req.api_key # settings.api_key
     /\ get_current_user(last.req.credentials, users, now).status = 200)
        => (last.status = 200 /\ last.principal = last.req.credentials.sub)

\* A wrong secret was presented next to the valid token of an active account.
C30_Witness ==
    /\ last.op = "register_warranty"
    /\ last.req.api_key = "wrong-api-key"
    /\ get_current_user(last.req.credentials, users, now).status = 200
    /\ last.principal = last.req.credentials.sub

(* ------------------------------ sessions ------------------------------ *)
ApiOps == {"register_user", "login", "get_me", "create_admin", "register_warranty",
           "check_warranty", "update_warranty_status"}

\* C23: an entry enters the session map only by a browser login with the
\* creation password of an existing, active account, under a new handle that
\* maps to the account's email; a refused browser login and every API
\* operation leave the session map unchanged.
C23_SessionOnlyByVerifiedLogin ==
    [][/\ (\E h \in DOMAIN sessions' : h \notin DOMAIN sessions \/ sessions'[h] # sessions[h]) =>
            /\ last'.op = "login_submit"
            /\ \E u \in users :
                 /\ u.email = last'.req.email
                 /\ u.is_active = "Y"
                 /\ CreationPassword(u) = last'.req.password
                 /\ \E h \in DOMAIN sessions' :
                      /\ h \notin DOMAIN sessions
                      /\ h \notin IssuedHandles
                      /\ sessions' = sessions @@ (h :> u.email)
       /\ (last'.op \in ApiOps \/ (last'.op = "login_submit" /\ last'.status # 303))
            => UNCHANGED sessions]_vars

\* The creation password of an inactive account was refused by the browser
\* login while a session of that account exists.
C23_Witness ==
    /\ last.op = "login_submit"
    /\ last.status = 403
    /\ \E h \in DOMAIN sessions : sessions[h] = last.req.email

Destroyed(h) == h \in IssuedHandles /\ h \notin DOMAIN sessions

\* C24: a logout removes the handle it presents, a destroyed handle never
\* comes back whatever logins and logouts follow, and a lookup of a
\* destroyed handle is sent to the login page.
C24_DestroyedHandleStaysUnknown ==
    [][/\ (last'.op = "logout" /\ Truthy(last'.req.cookie))
            => last'.req.cookie \notin DOMAIN sessions'
       /\ \A h \in IssuedHandles : Destroyed(h) => h \notin DOMAIN sessions'
       /\ (last'.op = "dashboard" /\ Destroyed(last'.req.cookie))
            => (last'.status = 303 /\ last'.detail = "/web/login")]_vars

\* The first handle was destroyed, its owner logged in again under another
\* handle, and the lookup of the first handle was sent to the login page.
C24_Witness ==
    /\ last.op = "dashboard"
    /\ last.req.cookie = Handle(1)
    /\ Destroyed(Handle(1))
    /\ Handle(2) \in DOMAIN sessions
    /\ last.status = 303

\* C25: logout always completes with the redirect to the login page; with no
\* cookie, an unknown handle or a destroyed handle it leaves the session map
\* unchanged; after it the handle is gone, so a second logout changes nothing.
C25_LogoutIdempotent ==
    [][last'.op = "logout" =>
        LET c == last'.req.cookie
        IN /\ last'.status = 303 /\ last'.detail = "/web/login"
           /\ (~Truthy(c) \/ c \notin DOMAIN sessions) => UNCHANGED sessions
           /\ c \notin DOMAIN sessions'
           /\ sessions' = [h \in DOMAIN sessions \ {c} |-> sessions[h]]]_vars

\* A logout presented a destroyed handle while another session is alive.
C25_Witness ==
    /\ last.op = "logout"
    /\ Destroyed(last.req.cookie)
    /\ last.status = 303
    /\ DOMAIN sessions # {}

\* C27: an entry of the session map stays, with its owner, until a logout
\* presents its handle or the process restarts, and at every time, also past
\* the max_age of its cookie, the lookup of a stored handle yields the owner.
C27_NoSessionExpiry ==
    [][/\ \A h \in DOMAIN sessions :
            \/ h \in DOMAIN sessions' /\ sessions'[h] = sessions[h]
            \/ last'.op = "logout" /\ last'.req.cookie = h
            \/ last'.op = "lifespan"
       /\ (last'.op = "dashboard" /\ last'.req.cookie \in DOMAIN sessions)
            => (last'.status = 200 /\ last'.principal = sessions[last'.req.cookie])]_vars

\* A handle was resolved after the max_age of its cookie had passed.
C27_Witness ==
    /\ last.op = "dashboard"
    /\ last.status = 200
    /\ last.req.cookie \in DOMAIN sessions
    /\ now > cookie_max_age

\* C28: a restart empties the session map, so that every handle issued before
\* it resolves to no session, and leaves accounts, warranties and the
\* outcome of the token gate for every issued token unchanged.
C28_RestartDropsSessionsOnly ==
    [][last'.op = "lifespan" =>
        /\ sessions' = <<>>
        /\ \A h \in IssuedHandles : get_session_user(h, sessions', users') = NoUser
        /\ UNCHANGED <<users, warranties>>
        /\ \A e \in Emails :
             get_current_user(IssuedToken(e), users', now')
                 = get_current_user(IssuedToken(e), users, now)]_vars

\* A restart ended two live sessions while an account besides the default
\* admin, a warranty and an unexpired token exist.
C28_Witness ==
    /\ last.op = "lifespan"
    /\ session_count >= 2
    /\ sessions = <<>>
    /\ Cardinality(users) > 1
    /\ warranties # {}
    /\ get_current_user(IssuedToken(UserEmail), users, now).status = 200

\* C26: whatever the interleaving of logouts and lookups of one handle, a
\* lookup that started after the removal never resolves the handle, and every
\* lookup ends with the owner or with the redirect to the login page, never
\* with an error or another account.
C26_LookupNeverFails ==
    \A i \in 1..MaxCalls :
        /\ calls[i].pc = "query_session_user" =>
              (~calls[i].req.absent_at_start /\ calls[i].auth = DefaultAdminEmail)
        /\ (calls[i].pc = "done" /\ calls[i].reply.op = "dashboard") =>
              /\ calls[i].reply.status \in {200, 303}
              /\ calls[i].reply.status = 200 => calls[i].reply.principal = DefaultAdminEmail
              /\ calls[i].req.absent_at_start =>
                    (calls[i].reply.status = 303 /\ calls[i].reply.detail = "/web/login")

\* A lookup of the first handle began while the entry was stored and found
\* it removed by a concurrent logout: it was sent to the login page.
C26_Witness ==
    \E i \in 1..MaxCalls : \E j \in 1..MaxCalls :
        /\ calls[i].pc = "done" /\ calls[i].reply.op = "dashboard"
        /\ calls[i].req.cookie = Handle(1)
        /\ ~calls[i].req.absent_at_start
        /\ calls[i].reply.status = 303
        /\ calls[j].pc = "done" /\ calls[j].reply.op = "logout"
        /\ calls[j].req.cookie = Handle(1)

AssetIdsOf(ws) == {w.asset_id : w \in ws}

\* C29: once the either gate has passed, the reply of a warranty registration
\* and the resulting set of asset ids are determined by the warranty store
\* and the asset id alone, the same for the service and for a user principal.
C29_PrincipalsTreatedEqually ==
    [][(last'.op = "register_warranty" /\ last'.status = 200) =>
        LET asset_id == last'.req.asset_id
            matching == {w \in warranties : w.asset_id = asset_id}
        IN /\ last'.principal \in {ServicePrincipal} \cup {u.email : u \in users}
           /\ IF matching = {}
              THEN last'.body = [success |-> TRUE, warranty_id |-> Cardinality(warranties) + 1,
                                 warranty_status |-> "registered"]
              ELSE \E w \in matching :
                     last'.body = [success |-> FALSE, warranty_id |-> w.id,
                                   warranty_status |-> w.warranty_status]
           /\ AssetIdsOf(warranties') = AssetIdsOf(warranties) \cup {asset_id}
           /\ Cardinality(warranties') = Cardinality(AssetIdsOf(warranties'))]_vars

\* An active regular user registered a new asset after the service principal
\* had registered one.
C29_Witness ==
    /\ last.op = "register_warranty"
    /\ last.principal = UserEmail
    /\ last.body.success = TRUE
    /\ FindUser(users, SystemEmail) # NoUser
    /\ FindUser(users, UserEmail).is_admin = "N"

(* ------------------------ status values ------------------------------- *)
\* C31: an API status update that passes the admin gate answers 404 and
\* changes no store when the warranty id names no record, and answers 400
\* leaving the warranties unchanged when the record exists and the status
\* value is none of registered, active, expired, claimed; every stored
\* warranty has one of these four values in every reachable state.
C31_StatusUpdateValidated ==
    /\ [](\A w \in warranties :
             w.warranty_status \in {"registered", "active", "expired", "claimed"})
    /\ [][(/\ last'.op = "update_warranty_status"
           /\ get_current_admin_user(last'.req.credentials, users, now).status = 200)
          => LET warranty == FindWarrantyById(warranties, last'.req.warranty_id)
             IN /\ warranty = NoWarranty
                     => (last'.status = 404 /\ UNCHANGED <<users, warranties, sessions>>)
                /\ (/\ warranty # NoWarranty
                    /\ last'.req.new_status
                          \notin {"registered", "active", "expired", "claimed"})
                     => (last'.status = 400 /\ UNCHANGED <<users, warranties, sessions>>)]_vars

\* An admin named an existing warranty and a value outside the enumeration.
C31_Witness ==
    /\ last.op = "update_warranty_status"
    /\ last.status = 400
    /\ last.principal = DefaultAdminEmail
    /\ FindWarrantyById(warranties, last.req.warranty_id) # NoWarranty
    /\ last.req.new_status = "void"

\* An admin named a warranty id with no record while a warranty is stored.
C31_WitnessNotFound ==
    /\ last.op = "update_warranty_status"
    /\ last.status = 404
    /\ warranties # {}

(* ------------------------ the system account -------------------------- *)
\* C32: no password login, API or browser, succeeds for the account
\* system@warranty-api.local while it carries the password that the
\* service-authenticated warranty registration gave it, and no session is
\* owned by that account.
C32_SystemAccountNeverLogsIn ==
    /\ [](\A h \in DOMAIN sessions :
             (sessions[h] = SystemEmail /\ FindUser(users, SystemEmail) # NoUser)
                => CreationPassword(FindUser(users, SystemEmail)) # SystemPassword)
    /\ [][(/\ last'.op \in {"login", "login_submit"}
           /\ last'.req.email = SystemEmail
           /\ FindUser(users, SystemEmail) # NoUser
           /\ CreationPassword(FindUser(users, SystemEmail)) = SystemPassword)
          => last'.status \in {401, 403}]_vars

(* ------------------------ the admin flag ------------------------------ *)
\* The accounts a step adds under an email that had no account.
CreatedAccounts == {v \in users' : FindUser(users, v.email) = NoUser}

\* C33: user registration and the creation of the system account add only
\* non-admin accounts, no step changes the admin flag of an existing account,
\* and an admin account is added only by the startup bootstrap or by a
\* create-admin request whose principal is an admin account already stored.
C33_PrivilegeNeverSelfGranted ==
    [][/\ \A u \in users : \A v \in users' : v.email = u.email => v.is_admin = u.is_admin
       /\ last'.op \in {"register_user", "register_warranty"}
             => \A v \in CreatedAccounts : v.is_admin = "N"
       /\ \A v \in CreatedAccounts : v.is_admin = "Y" =>
             \/ last'.op = "lifespan"
             \/ /\ last'.op = "create_admin"
                /\ last'.req.email = v.email
                /\ \E a \in users : a.email = last'.principal /\ a.is_admin = "Y"]_vars

\* A create-admin request of the default admin added a second admin next to
\* the system account, which service registration created as a non-admin.
C33_Witness ==
    /\ last.op = "create_admin"
    /\ last.status = 201
    /\ last.principal = DefaultAdminEmail
    /\ \E u \in users : u.email = last.req.email /\ u.is_admin = "Y"
    /\ \E u \in users : /\ u.email = SystemEmail
                         /\ u.is_admin = "N"
                         /\ CreationPassword(u) = SystemPassword

(* ------------------------ the two secret checks ----------------------- *)
\* C34: for every configured secret and every X-API-Key header, missing and
\* empty included, the service-secret-only gate passes the header exactly
\* when the either gate resolves it to the service principal: a lookup is
\* answered iff the either gate would take the same header as the secret
\* whatever token comes with it, and a registration is attributed to the
\* service iff the service-secret-only gate would pass its header.
C34_GatesAcceptSameSecrets ==
    /\ last.op = "check_warranty" =>
          LET either(c) == get_api_key_or_user(api_key_header(last.req.api_key), c, users,
                                               now, settings)
          IN /\ last.status = 200 => \A c \in AllCredentials : either(c).is_api_key_auth
             /\ last.status # 200 => \A c \in AllCredentials : ~either(c).is_api_key_auth
    /\ last.op = "register_warranty" =>
          (last.principal = ServicePrincipal
             <=> validate_api_key(api_key_header(last.req.api_key), settings).status = 200)

\* With an empty configured secret an empty header was refused by the
\* service-secret-only gate, as the either gate refuses it.
C34_Witness ==
    /\ settings.api_key = ""
    /\ last.op = "check_warranty"
    /\ last.req.api_key = ""
    /\ last.status = 401
    /\ ~get_api_key_or_user(api_key_header(""), NoCredentials, users, now,
                            settings).is_api_key_auth

\* With an empty configured secret a registration carrying an empty header
\* was attributed to the account of its token, not to the service.
C34_WitnessEither ==
    /\ settings.api_key = ""
    /\ last.op = "register_warranty"
    /\ last.req.api_key = ""
    /\ last.status = 200
    /\ last.principal # ServicePrincipal

(* ------------- worker processes: startup, service, shutdown ----------- *)
\* A worker past the yield of lifespan, waiting for a request.
ServingCall == [pc |-> "idle", serving |-> TRUE]

\* yield: the startup part of lifespan is over and the worker serves.
lifespan_yield(i) ==
    /\ calls[i].pc = "done"
    /\ calls[i].reply.op = "lifespan"
    /\ calls' = [calls EXCEPT ![i] = ServingCall]
    /\ UNCHANGED <<store, last>>

\* The worker leaves lifespan after the yield; the process may be launched again.
shutdown(i) ==
    /\ \/ calls[i] = ServingCall
       \/ calls[i].pc = "done" /\ calls[i].reply.op # "lifespan"
    /\ calls' = [calls EXCEPT ![i] = IdleCall]
    /\ UNCHANGED <<store, last>>

\* A fresh database and no worker launched yet.
InitBoot ==
    /\ settings = [api_key |-> default_api_key]
    /\ users = {}
    /\ warranties = {}
    /\ sessions = <<>>
    /\ session_count = 0
    /\ now = 0
    /\ last = Idle
    /\ calls = [i \in 1..MaxCalls |-> IdleCall]

\* A launched worker runs lifespan first and takes requests only after its yield.
NextBoot ==
    \/ \E i \in 1..MaxCalls : calls[i] = IdleCall /\ begin_lifespan(i)
    \/ \E i \in 1..MaxCalls : insert_default_admin(i, CallSalt(i))
    \/ \E i \in 1..MaxCalls : lifespan_yield(i)
    \/ \E i \in 1..MaxCalls : shutdown(i)
    \/ \E i \in 1..MaxCalls, e \in Emails, p \in RegisterPasswords :
          calls[i] = ServingCall /\ begin_register_user(i, e, p)
    \/ \E i \in 1..MaxCalls : insert_user(i, CallSalt(i))
    \/ \E i \in 1..MaxCalls, c \in {NoCredentials, IssuedToken(DefaultAdminEmail)},
          e \in Emails, p \in RegisterPasswords :
          calls[i] = ServingCall /\ begin_create_admin(i, c, e, p)
    \/ \E i \in 1..MaxCalls : find_admin_email(i)
    \/ \E i \in 1..MaxCalls : insert_admin(i, CallSalt(i))

SpecBoot == InitBoot /\ [][NextBoot]_vars

AdminExists(us) == \E u \in us : u.is_admin = "Y"

\* The worker has completed the startup part of lifespan.
Started(call) == call # IdleCall /\ call.pc # "insert_default_admin"

\* C35: a startup adds an account only when the store holds no admin, and
\* then it adds the default admin account and nothing else; a startup that
\* finds an admin, at its query or at its insert, leaves the account store
\* unchanged; whenever a worker has completed its startup the store holds
\* at least one admin account.
C35_BootstrapIdempotent ==
    /\ [](\A i \in 1..MaxCalls : Started(calls[i]) => AdminExists(users))
    /\ [][\A i \in 1..MaxCalls :
            /\ (calls[i] = IdleCall /\ calls'[i] # calls[i]) =>
                  /\ UNCHANGED users
                  /\ AdminExists(users) <=> calls'[i].pc = "done"
            /\ (calls[i].pc = "insert_default_admin" /\ calls'[i] # calls[i]) =>
                  IF AdminExists(users)
                  THEN UNCHANGED users
                  ELSE /\ users' # users
                       /\ \E u \in users' : /\ users' = users \cup {u}
                                             /\ u.email = DefaultAdminEmail
                                             /\ u.is_admin = "Y"]_vars

\* A worker launched again after a user registered found the admin and
\* added nothing.
C35_Witness ==
    \E i \in 1..MaxCalls :
        /\ calls[i].pc = "done"
        /\ calls[i].reply.op = "lifespan"
        /\ calls[i].reply.detail = ""
        /\ ~calls[i].reply.body.created
        /\ \E u \in users : u.email = UserEmail
        /\ \E u \in users : u.email = DefaultAdminEmail /\ u.is_admin = "Y"

\* Two workers started on the fresh database together: one created the
\* default admin, the insert of the other failed and was logged.
C35_WitnessRace ==
    \E i \in 1..MaxCalls, j \in 1..MaxCalls :
        /\ calls[i].pc = "done"
        /\ calls[i].reply.op = "lifespan"
        /\ calls[i].reply.detail = "Error creating default admin"
        /\ calls[j].pc = "done"
        /\ calls[j].reply.op = "lifespan"
        /\ calls[j].reply.detail = ""
        /\ calls[j].reply.body.created

(* ------------------------ the frame of logout ------------------------- *)
\* C36: a logout deletes no session entry but the one of the handle it
\* presents: every other entry keeps its owner, resolves after the logout to
\* the account it resolved to before, also when that account owns the
\* deleted entry, and accounts and warranties are unchanged.
C36_LogoutRemovesOnlyPresented ==
    [][last'.op = "logout" =>
        /\ \A h \in DOMAIN sessions \ {last'.req.cookie} :
              /\ h \in DOMAIN sessions'
              /\ sessions'[h] = sessions[h]
              /\ get_session_user(h, sessions', users') # NoUser
              /\ get_session_user(h, sessions', users').email = sessions[h]
        /\ DOMAIN sessions' \subseteq DOMAIN sessions
        /\ UNCHANGED <<users, warranties>>]_vars

\* Only the default admin can log in, it opened three sessions, and the
\* logout of one of them left the other two in the map.
C36_Witness ==
    /\ last.op = "logout"
    /\ Destroyed(last.req.cookie)
    /\ FindUser(users, UserEmail) = NoUser
    /\ Cardinality(DOMAIN sessions) = 2
    /\ \A h \in DOMAIN sessions : sessions[h] = DefaultAdminEmail

====
